---- MODULE Spec2Model ----
(***************************************************************************)
(* respec-validator, cli.js: a command line tool that serves the working   *)
(* directory on port 5000, runs respec2html on the document, then the      *)
(* Nu markup validator and the link checker on the generated file, and     *)
(* exits with 0 when every enabled stage passed and 1 otherwise.           *)
(*                                                                         *)
(* The model follows the asynchronous control flow of cli.js: every action *)
(* is the piece of code that runs between two suspension points (the main  *)
(* script, the continuation of an await).  The inputs of a run (command    *)
(* line, environment, file system, outcome of each child process) are      *)
(* chosen in Init or by \E in the action that consumes them.               *)
(***************************************************************************)
EXTENDS Integers, Sequences, FiniteSets, TLC

VARIABLES
  argv,        \* the command line, as commandLineArgs will see it
  env,         \* process environment and file system the run starts in
  manifestFile,  \* the manifest on disk: its characters, or Unreadable
  pc,          \* the suspension point the program is at
  DEBUG,       \* cli.js:18, the module-level debug flag
  options,     \* result of commandLineArgs (NoOptions before parsing)
  server,      \* state of the http server of cli.js:10-16
  running,     \* child processes and file reads in flight
  launched,    \* every child process started so far, in order
  finished,    \* every child process ended so far, with its outcome
  out,         \* console output so far, in order
  tempFile,    \* doReSpecValidation's tempFile (NoFile before mktemp is done)
  htmlFile,    \* validate's htmlFile (NoFile until the generation returned)
  manifestReads, \* number of fs.readFile calls on the manifest
  manifestData,  \* what fs.readFile returned (NoManifest before)
  derived,     \* outcome of every call of processManifest so far
  ignores,     \* the exclusions handed to checkLinks
  exitCode     \* argument of process.exit (NoExit while running)

vars == <<argv, env, manifestFile, pc, DEBUG, options, server, running,
          launched, finished, out, tempFile, htmlFile, manifestReads,
          manifestData, derived, ignores, exitCode>>

----------------------------------------------------------------------------
(* Bounds of the model *)

\* number of lines of the manifest files processManifest is applied to
MaxLines == 2

\* number of times processManifest is applied to a manifest file
MaxCalls == 2

----------------------------------------------------------------------------
(* Values *)

NoExit == -1
NoOptions == [parsed |-> FALSE]
NoFile == "none"
NoManifest == <<"-">>
Unreadable == <<"ENOENT">>

\* what commandLineArgs throws on a command line it rejects
ParseErrors == {"UNKNOWN_OPTION", "UNKNOWN_VALUE", "ALREADY_SET"}

\* values of the positional src argument; "" is an absent argument
SrcValues == {"", "index.html", "spec.html"}

\* the characters manifest files are made of, with "a", "/" and "["
LF == "\n"
SP == " "

\* the lines manifest files are made of: a record with a path, a record
\* with a rooted path, a record with leading white space, a white-space
\* only line, an empty line, and a record whose URL has an invalid host
ManifestLines ==
  { <<"a", SP, "a">>,
    <<"/", "a", "/", "a">>,
    <<SP, "a">>,
    <<SP>>,
    <<>>,
    <<"/", "/", "[">> }

RECURSIVE JoinLines(_)
JoinLines(ls) ==
  IF ls = <<>> THEN <<>>
  ELSE IF Len(ls) = 1 THEN ls[1]
  ELSE ls[1] \o <<LF>> \o JoinLines(Tail(ls))

SeqsUpTo(S, n) == UNION { [1..k -> S] : k \in 0..n }

\* contents of the manifest file: up to MaxLines lines, with or without a
\* final newline
ManifestData ==
  LET bodies == { JoinLines(ls) : ls \in SeqsUpTo(ManifestLines, MaxLines) }
  IN  bodies \cup { b \o <<LF>> : b \in bodies }

\* the manifest files of the runs of the whole program: two records ended
\* by newlines, a record followed by one whose URL does not parse, and a
\* file that cannot be read
SampleManifests ==
  { <<"a", SP, "a", LF, "/", "a", "/", "a", LF>>,
    <<"a", LF, "/", "/", "[">>,
    Unreadable }

----------------------------------------------------------------------------
(* processManifest, cli.js:203-216 *)

\* index of the first element of s satisfying the test, 0 when there is none
RECURSIVE IndexFrom(_, _, _)
IndexFrom(s, i, cs) ==
  IF i > Len(s) THEN 0
  ELSE IF s[i] \in cs THEN i
  ELSE IndexFrom(s, i + 1, cs)

\* data.split(/\n/): the pieces between the newlines, empty pieces included
RECURSIVE SplitLines(_)
SplitLines(data) ==
  LET i == IndexFrom(data, 1, {LF})
  IN  IF i = 0 THEN <<data>>
      ELSE <<SubSeq(data, 1, i - 1)>>
             \o SplitLines(SubSeq(data, i + 1, Len(data)))

\* .filter(item => item): the empty string is the only falsy string
FilterItems(items) == SelectSeq(items, LAMBDA item : item # <<>>)

\* const [urlComponent] = item.split(/\s+/): what precedes the first run of
\* white space (the empty string when the item starts with white space)
UrlComponent(item) ==
  LET i == IndexFrom(item, 1, {SP, LF})
  IN  IF i = 0 THEN item ELSE SubSeq(item, 1, i - 1)

\* new URL(urlComponent, "file://"): the WHATWG parser on an input made of
\* the characters "a", "/" and "[", against the base file:///.  An input
\* starting with "//" names a host, which ends at the next "/"; "[" opens
\* an IPv6 literal that never closes, or is a forbidden host code point,
\* and the constructor throws.  Every other input is a path, resolved
\* against the base's root.
ParseURL(urlComponent) ==
  LET n == Len(urlComponent)
  IN  IF n >= 2 /\ urlComponent[1] = "/" /\ urlComponent[2] = "/"
      THEN LET j == IndexFrom(urlComponent, 3, {"/"})
               host == IF j = 0 THEN SubSeq(urlComponent, 3, n)
                       ELSE SubSeq(urlComponent, 3, j - 1)
               path == IF j = 0 THEN <<"/">>
                       ELSE SubSeq(urlComponent, j, n)
           IN  IF IndexFrom(host, 1, {"["}) # 0
               THEN [ok |-> FALSE, pathname |-> <<>>]
               ELSE [ok |-> TRUE, pathname |-> path]
      ELSE IF n >= 1 /\ urlComponent[1] = "/"
      THEN [ok |-> TRUE, pathname |-> urlComponent]
      ELSE [ok |-> TRUE, pathname |-> <<"/">> \o urlComponent]

\* pathname.slice(1)
Slice1(s) == IF Len(s) <= 1 THEN <<>> ELSE SubSeq(s, 2, Len(s))

\* ProcessManifest that leaves out the lines whose URL does not parse
\* instead of throwing
ProcessManifest_SkipsBadLines(data) ==
  LET items == FilterItems(SplitLines(data))
      good == SelectSeq(items, LAMBDA item : ParseURL(UrlComponent(item)).ok)
  IN  [ok |-> TRUE,
       ignores |-> [k \in 1..Len(good) |->
                      Slice1(ParseURL(UrlComponent(good[k])).pathname)]]

\* the body of processManifest after the file was read: the exclusions, in
\* order, each standing for the argument `--url-ignore=<exclusion>`; the
\* map throws when a URL does not parse
ProcessManifest(data) ==
  LET items == FilterItems(SplitLines(data))
      urls == [k \in 1..Len(items) |-> ParseURL(UrlComponent(items[k]))]
  IN  IF \E k \in 1..Len(items) : ~urls[k].ok
      THEN [ok |-> FALSE, ignores |-> <<>>]
      ELSE [ok |-> TRUE,
            ignores |-> [k \in 1..Len(items) |-> Slice1(urls[k].pathname)]]

\* what a call of processManifest comes to: the promise is rejected (ok is
\* FALSE) when the file cannot be read or a URL does not parse, and is
\* fulfilled with the exclusions otherwise
ManifestOutcome(file) ==
  IF file = Unreadable THEN [ok |-> FALSE, ignores |-> <<>>]
  ELSE ProcessManifest(file)

\* ReadAndDerive with the exclusions kept in a module-level list that every
\* call appends to
ReadAndDerive_Accumulates ==
  /\ manifestData' = IF manifestFile = Unreadable THEN manifestData
                     ELSE manifestFile
  /\ LET r == ManifestOutcome(manifestFile)
         before == IF derived = <<>> THEN <<>>
                   ELSE derived[Len(derived)].ignores
     IN  derived' = Append(derived,
                           [ok |-> r.ok, ignores |-> before \o r.ignores])

\* cli.js:203-216, one call of processManifest on the state: the file is
\* read and the outcome of the call is recorded; the file is left as it is
ReadAndDerive ==
  /\ manifestData' = IF manifestFile = Unreadable THEN manifestData
                     ELSE manifestFile
  /\ derived' = Append(derived, ManifestOutcome(manifestFile))

----------------------------------------------------------------------------
(* The run *)

\* the command lines commandLineArgs accepts: every combination of the
\* options of optionList (cli.js:19-86); a String option is present or not
GoodArgv ==
  [ err : {"none"},
    noLinks : BOOLEAN, useGET : BOOLEAN, noValidator : BOOLEAN,
    help : BOOLEAN, debug : BOOLEAN, version : BOOLEAN,
    status : BOOLEAN, ghToken : BOOLEAN, ghUser : BOOLEAN,
    src : SrcValues, manifest : BOOLEAN ]

\* the command lines commandLineArgs throws on; what else they hold is
\* never looked at
BadArgv ==
  [ err : ParseErrors,
    noLinks : {FALSE}, useGET : {FALSE}, noValidator : {FALSE},
    help : {FALSE}, debug : {FALSE}, version : {FALSE},
    status : {FALSE}, ghToken : {FALSE}, ghUser : {FALSE},
    src : {""}, manifest : {FALSE} ]

\* process.env.DEBUG, and whether port 5000 is free
Envs == [ DEBUG : BOOLEAN, portFree : BOOLEAN ]

Init ==
  /\ argv \in GoodArgv \cup BadArgv
  /\ env \in Envs
  /\ manifestFile \in IF argv.manifest THEN SampleManifests ELSE {Unreadable}
  /\ pc = "load"
  /\ DEBUG = FALSE
  /\ options = NoOptions
  /\ server = "none"
  /\ running = {}
  /\ launched = <<>>
  /\ finished = <<>>
  /\ out = <<>>
  /\ tempFile = NoFile
  /\ htmlFile = NoFile
  /\ manifestReads = 0
  /\ manifestData = NoManifest
  /\ derived = <<>>
  /\ ignores = <<>>
  /\ exitCode = NoExit

\* a child process, as ShellCommand is given it
Cmd(name, src, params, file, useGET, ign) ==
  [ cmd |-> name, src |-> src, params |-> params, file |-> file,
    useGET |-> useGET, ignores |-> ign ]

\* commandLineArgs(optionList), cli.js:271 with the definitions of
\* cli.js:19-86: help, debug, version and check-links-using-get default to
\* false, the other options are undefined when absent
CommandLineArgs(a) ==
  [ parsed |-> TRUE,
    noLinks |-> a.noLinks, useGET |-> a.useGET,
    noValidator |-> a.noValidator, help |-> a.help, debug |-> a.debug,
    version |-> a.version, status |-> a.status, ghToken |-> a.ghToken,
    ghUser |-> a.ghUser, src |-> a.src, manifest |-> a.manifest ]

\* Goto with the server closed as soon as the generation is over
Goto_ClosesServer(p, o, run, lau, code) ==
  /\ pc' = p
  /\ out' = o
  /\ running' = run
  /\ launched' = lau
  /\ exitCode' = code
  /\ server' = IF p \in {"exited", "vnu", "manifest", "links"} THEN "closed"
               ELSE server

\* the control part of a step: where the program suspends next, what it
\* printed, which children it runs; process.exit takes the server down
\* with the process
Goto(p, o, run, lau, code) ==
  /\ pc' = p
  /\ out' = o
  /\ running' = run
  /\ launched' = lau
  /\ exitCode' = code
  /\ server' = IF p = "exited" THEN "closed" ELSE server

\* process.exit(code)
Exit(o, code) == Goto("exited", o, {}, launched, code)

\* new ShellCommand(cmd).run(), cli.js:132-147, with run the children still
\* in flight: the command is logged in debug mode and the child is started
Run(p, o, run, c) ==
  Goto(p, IF DEBUG THEN Append(o, "debug:cmd") ELSE o,
       run \cup {c.cmd}, Append(launched, c), exitCode)

\* a promise rejected with nobody to handle it: Node 15 and later end the
\* process with code 1, earlier versions warn and go on, and the listening
\* server then keeps the idle process alive
UnhandledRejection(o) ==
  \/ Exit(Append(o, "uncaught"), 1)
  \/ Goto("idle", Append(o, "warning:unhandled-rejection"), {}, launched,
          exitCode)

\* cli.js:10-18, the top of the main script: the server is created and
\* listen(5000) binds the port at once; DEBUG starts as process.env.DEBUG
Load ==
  /\ pc = "load"
  /\ pc' = "main"
  /\ server' = IF env.portFree THEN "bound" ELSE "failed"
  /\ DEBUG' = env.DEBUG
  /\ UNCHANGED <<argv, env, manifestFile, derived, options, running,
                 launched, finished, out, tempFile, htmlFile, manifestReads,
                 manifestData, ignores, exitCode>>

\* ParseErrorExitCode with the catch block telling an unknown option from
\* the other errors
ParseErrorExitCode_ByKind(err) == IF err = "UNKNOWN_OPTION" THEN 127 ELSE 1

\* cli.js:272-275: the exit code when commandLineArgs threw err
ParseErrorExitCode(err) == 127

\* CheckOptions without the check of cli.js:290-293
CheckOptions_NoTokenCheck(opts) ==
  IF opts.version THEN "version"
  ELSE IF opts.help THEN "help"
  ELSE IF opts.src = "" THEN "no-src"
  ELSE "ok"

\* CheckOptions with --help looked at after the two configuration checks
CheckOptions_HelpLast(opts) ==
  IF opts.version THEN "version"
  ELSE IF opts.src = "" THEN "no-src"
  ELSE IF ~opts.ghToken /\ opts.ghUser THEN "no-token"
  ELSE IF opts.help THEN "help"
  ELSE "ok"

\* cli.js:277-294: the first of the checks of parseCommandLine that the
\* options meet, "ok" when they pass them all
CheckOptions(opts) ==
  IF opts.version THEN "version"
  ELSE IF opts.help THEN "help"
  ELSE IF opts.src = "" THEN "no-src"
  ELSE IF ~opts.ghToken /\ opts.ghUser THEN "no-token"
  ELSE "ok"

\* cli.js:268-295 and 296-297, up to the first suspension: parseCommandLine
\* called by the main function
ParseCommandLine ==
  /\ pc = "main"
  /\ IF argv.err # "none"
     THEN /\ Exit(Append(out, "usage"), ParseErrorExitCode(argv.err))
          /\ UNCHANGED <<options, DEBUG>>
     ELSE LET opts == CommandLineArgs(argv)
              check == CheckOptions(opts)
          IN  /\ options' = opts
              /\ DEBUG' = opts.debug
              /\ CASE check = "version" ->
                        Goto("version", out, running, launched, exitCode)
                   [] check = "help" -> Exit(Append(out, "usage"), 0)
                   [] check = "no-src" -> Exit(Append(out, "usage"), 1)
                   [] check = "no-token" ->
                        Exit(Append(out, "missing-gh-token"), 1)
                   [] OTHER ->
                        Goto("parsed", out, running, launched, exitCode)
  /\ UNCHANGED <<argv, env, manifestFile, derived, finished, tempFile,
                 htmlFile, manifestReads, manifestData, ignores>>

\* the callbacks of listen(5000), which run once the main script returned
\* and before any promise continues: `() => {}` of cli.js:16 when the port
\* was bound, or the 'error' event, which nothing listens to and which
\* ends the process as an uncaught exception
NextTick ==
  /\ pc \in {"version", "parsed"}
  /\ server \in {"bound", "failed"}
  /\ IF server = "failed"
     THEN Exit(Append(out, "uncaught"), 1)
     ELSE /\ server' = "listening"
          /\ UNCHANGED <<pc, out, running, launched, exitCode>>
  /\ UNCHANGED <<argv, env, manifestFile, derived, DEBUG, options, finished,
                 tempFile, htmlFile, manifestReads, manifestData, ignores>>

\* cli.js:278-280: getPackageVersion (cli.js:258-266) has read package.json,
\* or has failed to, which rejects parseCommandLine and the main function
VersionRead ==
  /\ pc = "version"
  /\ server = "listening"
  /\ \E ok \in BOOLEAN :
       IF ok THEN Exit(Append(out, "version"), 0)
       ELSE UnhandledRejection(out)
  /\ UNCHANGED <<argv, env, manifestFile, derived, DEBUG, options, finished,
                 tempFile, htmlFile, manifestReads, manifestData, ignores>>

\* cli.js:226-234: the query parameters given to the document
Params(opts) ==
  (IF opts.ghToken THEN {"githubToken"} ELSE {})
    \cup (IF opts.ghUser THEN {"githubUser"} ELSE {})
    \cup (IF opts.status THEN {"specStatus"} ELSE {})

\* the path mktemp -d printed, resolved with ./output.html (cli.js:160)
OutputHtml == "tmp/output.html"

\* cli.js:225-236 and 157-159: the try block entered, doReSpecValidation
\* prints its progress line and starts mktemp (quiet, yet logged in debug
\* mode)
StartGeneration(o) ==
  /\ Run("mktemp", Append(o, "progress:respec"), running,
         Cmd("mktemp", "", {}, NoFile, FALSE, <<>>))
  /\ UNCHANGED <<manifestReads, ignores>>

\* Catch without `exitCode = 1`
Catch_ExitZero(o, run, err) ==
  /\ Goto("exited", o \o <<err, "not-so-good">>, run, launched, 0)
  /\ UNCHANGED <<manifestReads, ignores>>

\* Catch without the failure summary
Catch_NoSummary(o, run, err) ==
  /\ Goto("exited", Append(o, err), run, launched, 1)
  /\ UNCHANGED <<manifestReads, ignores>>

\* cli.js:249-255: the catch block prints the error and the failure
\* summary, and the finally block exits with 1
Catch(o, run, err) ==
  /\ Goto("exited", o \o <<err, "not-so-good">>, run, launched, 1)
  /\ UNCHANGED <<manifestReads, ignores>>

\* Finish without the success summary
Finish_NoSummary(o, run) ==
  /\ Goto("exited", o, run, launched, 0)
  /\ UNCHANGED <<manifestReads, ignores>>

\* cli.js:248 and 253-255: the success summary, and the finally block
\* exits with 0
Finish(o, run) ==
  /\ Goto("exited", Append(o, "all-passed"), run, launched, 0)
  /\ UNCHANGED <<manifestReads, ignores>>

\* StartLinks without the progress line
StartLinks_NoProgress(o, run, file, ign) ==
  /\ Run("links", o, run,
         Cmd("link-checker", "", {}, file, options.useGET, ign))
  /\ ignores' = ign

\* cli.js:189-196: checkLinks prints its progress line and starts the link
\* checker on the directory of the file, with the exclusions it was given
StartLinks(o, run, file, ign) ==
  /\ Run("links", Append(o, "progress:links"), run,
         Cmd("link-checker", "", {}, file, options.useGET, ign))
  /\ ignores' = ign

\* LinkStage that does not await processManifest: the link checker is
\* started at once, without the exclusions
LinkStage_NoAwaitManifest(o, run, file) ==
  IF ~options.noLinks
  THEN /\ StartLinks(o, run, file, <<>>)
       /\ manifestReads' = IF options.manifest THEN manifestReads + 1
                           ELSE manifestReads
  ELSE Finish(o, run)

\* LinkStage with the manifest processed before --no-links is looked at
LinkStage_ManifestFirst(o, run, file) ==
  IF options.manifest
  THEN /\ Goto("manifest", o, run, launched, exitCode)
       /\ manifestReads' = manifestReads + 1
       /\ UNCHANGED ignores
  ELSE IF ~options.noLinks
  THEN /\ StartLinks(o, run, file, <<>>)
       /\ UNCHANGED manifestReads
  ELSE Finish(o, run)

\* cli.js:240-248: the link check unless --no-links; its arguments are
\* evaluated first, so that with --manifest processManifest starts reading
\* the file (cli.js:204-205) before checkLinks is called
LinkStage(o, run, file) ==
  IF ~options.noLinks
  THEN IF options.manifest
       THEN /\ Goto("manifest", o, run, launched, exitCode)
            /\ manifestReads' = manifestReads + 1
            /\ UNCHANGED ignores
       ELSE /\ StartLinks(o, run, file, <<>>)
            /\ UNCHANGED manifestReads
  ELSE Finish(o, run)

\* MarkupStage that never looks at --no-validator
MarkupStage_IgnoresFlag(o, run, file) ==
  /\ Run("vnu", Append(o, "progress:markup"), run,
         Cmd("vnu", "", {}, file, FALSE, <<>>))
  /\ UNCHANGED <<manifestReads, ignores>>

\* MarkupStage that does not await doMarkupValidation: the link checker is
\* started while the markup validator runs
MarkupStage_NoAwait(o, run, file) ==
  IF ~options.noValidator
  THEN /\ Goto("links",
               o \o <<"progress:markup", "progress:links">>,
               run \cup {"vnu", "link-checker"},
               launched \o << Cmd("vnu", "", {}, file, FALSE, <<>>),
                              Cmd("link-checker", "", {}, file,
                                  options.useGET, <<>>) >>,
               exitCode)
       /\ UNCHANGED <<manifestReads, ignores>>
  ELSE LinkStage(o, run, file)

\* cli.js:237-239 and 181-185: the markup check unless --no-validator
MarkupStage(o, run, file) ==
  IF ~options.noValidator
  THEN /\ Run("vnu", Append(o, "progress:markup"), run,
              Cmd("vnu", "", {}, file, FALSE, <<>>))
       /\ UNCHANGED <<manifestReads, ignores>>
  ELSE LinkStage(o, run, file)

\* cli.js:298 and 222-223: the main function calls validate, which in
\* debug mode first awaits the package version, outside its try block
Validate ==
  /\ pc = "parsed"
  /\ server = "listening"
  /\ IF DEBUG
     THEN /\ Goto("validate_version", out, running, launched, exitCode)
          /\ UNCHANGED <<manifestReads, ignores>>
     ELSE StartGeneration(out)
  /\ UNCHANGED <<argv, env, manifestFile, derived, DEBUG, options, finished,
                 tempFile, htmlFile, manifestData>>

\* cli.js:223: the version is logged and validate goes on, or
\* getPackageVersion failed and validate rejects, which nothing handles
ValidateVersionRead ==
  /\ pc = "validate_version"
  /\ \E ok \in BOOLEAN :
       IF ok THEN StartGeneration(Append(out, "debug:version"))
       ELSE /\ UnhandledRejection(out)
            /\ UNCHANGED <<manifestReads, ignores>>
  /\ UNCHANGED <<argv, env, manifestFile, derived, DEBUG, options, finished,
                 tempFile, htmlFile, manifestData>>

\* MktempDone that runs mktemp again when it failed
MktempDone_Retry ==
  /\ pc = "mktemp"
  /\ "mktemp" \in running
  /\ \E ok \in BOOLEAN :
       /\ finished' = Append(finished, [cmd |-> "mktemp", ok |-> ok])
       /\ IF ok
          THEN /\ tempFile' = OutputHtml
               /\ Run("respec", out, running \ {"mktemp"},
                      Cmd("respec2html", options.src, Params(options),
                          OutputHtml, FALSE, <<>>))
          ELSE /\ Run("mktemp", out, running \ {"mktemp"},
                      Cmd("mktemp", "", {}, NoFile, FALSE, <<>>))
               /\ UNCHANGED tempFile
       /\ UNCHANGED <<manifestReads, ignores>>
  /\ UNCHANGED <<argv, env, manifestFile, derived, DEBUG, options, htmlFile,
                 manifestData>>

\* cli.js:159-169: mktemp has ended; on success doReSpecValidation builds
\* the URL of the document on the local server and starts respec2html
MktempDone ==
  /\ pc = "mktemp"
  /\ "mktemp" \in running
  /\ \E ok \in BOOLEAN :
       /\ finished' = Append(finished, [cmd |-> "mktemp", ok |-> ok])
       /\ IF ok
          THEN /\ tempFile' = OutputHtml
               /\ Run("respec", out, running \ {"mktemp"},
                      Cmd("respec2html", options.src, Params(options),
                          OutputHtml, FALSE, <<>>))
               /\ UNCHANGED <<manifestReads, ignores>>
          ELSE /\ Catch(out, running \ {"mktemp"}, "error:mktemp")
               /\ UNCHANGED tempFile
  /\ UNCHANGED <<argv, env, manifestFile, derived, DEBUG, options, htmlFile,
                 manifestData>>

\* cli.js:169-173 and 236-237: respec2html has ended; on success the
\* marker is printed and validate goes on with the generated file
RespecDone ==
  /\ pc = "respec"
  /\ "respec2html" \in running
  /\ \E ok \in BOOLEAN :
       /\ finished' = Append(finished, [cmd |-> "respec2html", ok |-> ok])
       /\ IF ok
          THEN /\ htmlFile' = tempFile
               /\ MarkupStage(Append(out, "success:respec"),
                              running \ {"respec2html"}, tempFile)
          ELSE /\ Catch(out, running \ {"respec2html"}, "error:respec2html")
               /\ UNCHANGED htmlFile
  /\ UNCHANGED <<argv, env, manifestFile, derived, DEBUG, options, tempFile,
                 manifestData>>

\* cli.js:185-186 and 238-240: the markup validator has ended
VnuDone ==
  /\ pc = "vnu"
  /\ "vnu" \in running
  /\ \E ok \in BOOLEAN :
       /\ finished' = Append(finished, [cmd |-> "vnu", ok |-> ok])
       /\ IF ok
          THEN LinkStage(Append(out, "success:markup"), running \ {"vnu"},
                         htmlFile)
          ELSE Catch(out, running \ {"vnu"}, "error:vnu")
  /\ UNCHANGED <<argv, env, manifestFile, derived, DEBUG, options, tempFile,
                 htmlFile, manifestData>>

\* cli.js:205-215 and 241-246: fs.readFile has ended; on success the
\* exclusions are derived and checkLinks is called with them; a file that
\* cannot be read and a URL that does not parse both throw into the catch
\* block of validate
ManifestRead ==
  /\ pc = "manifest"
  /\ ReadAndDerive
  /\ LET r == ManifestOutcome(manifestFile)
     IN  IF r.ok
         THEN /\ StartLinks(out, running, htmlFile, r.ignores)
              /\ UNCHANGED manifestReads
         ELSE Catch(out, running,
                    IF manifestFile = Unreadable THEN "error:readFile"
                    ELSE "error:url")
  /\ UNCHANGED <<argv, env, manifestFile, DEBUG, options, finished, tempFile,
                 htmlFile>>

\* cli.js:196-197 and 247-255: the link checker has ended
LinksDone ==
  /\ pc = "links"
  /\ "link-checker" \in running
  /\ \E ok \in BOOLEAN :
       /\ finished' = Append(finished, [cmd |-> "link-checker", ok |-> ok])
       /\ IF ok
          THEN Finish(Append(out, "success:links"),
                      running \ {"link-checker"})
          ELSE Catch(out, running \ {"link-checker"}, "error:link-checker")
  /\ UNCHANGED <<argv, env, manifestFile, derived, DEBUG, options, tempFile,
                 htmlFile, manifestData>>

Next ==
  \/ Load
  \/ ParseCommandLine
  \/ NextTick
  \/ VersionRead
  \/ Validate
  \/ ValidateVersionRead
  \/ MktempDone
  \/ RespecDone
  \/ VnuDone
  \/ ManifestRead
  \/ LinksDone

Spec == Init /\ [][Next]_vars

----------------------------------------------------------------------------
(* processManifest on its own *)

\* processManifest has no caller but validate; here it is applied, up to
\* MaxCalls times, to every manifest file of ManifestData and to one that
\* cannot be read, in a program that does nothing else
InitM ==
  /\ argv = [ err |-> "none", noLinks |-> FALSE, useGET |-> FALSE,
              noValidator |-> FALSE, help |-> FALSE, debug |-> FALSE,
              version |-> FALSE, status |-> FALSE, ghToken |-> FALSE,
              ghUser |-> FALSE, src |-> "index.html", manifest |-> TRUE ]
  /\ env = [DEBUG |-> FALSE, portFree |-> TRUE]
  /\ manifestFile \in ManifestData \cup {Unreadable}
  /\ pc = "processManifest"
  /\ DEBUG = FALSE
  /\ options = CommandLineArgs(argv)
  /\ server = "listening"
  /\ running = {}
  /\ launched = <<>>
  /\ finished = <<>>
  /\ out = <<>>
  /\ tempFile = NoFile
  /\ htmlFile = NoFile
  /\ manifestReads = 0
  /\ manifestData = NoManifest
  /\ derived = <<>>
  /\ ignores = <<>>
  /\ exitCode = NoExit

\* cli.js:203-216: one call of processManifest(options.manifest)
ProcessManifestCall ==
  /\ pc = "processManifest"
  /\ manifestReads < MaxCalls
  /\ manifestReads' = manifestReads + 1
  /\ ReadAndDerive
  /\ UNCHANGED <<argv, env, manifestFile, pc, DEBUG, options, server, running,
                 launched, finished, out, tempFile, htmlFile, ignores,
                 exitCode>>

NextM == ProcessManifestCall

SpecM == InitM /\ [][NextM]_vars

TypeOK ==
  /\ argv \in GoodArgv \cup BadArgv
  /\ env \in Envs
  /\ manifestFile \in ManifestData \cup SampleManifests
  /\ pc \in {"load", "main", "version", "parsed", "validate_version",
             "mktemp", "respec", "vnu", "manifest", "links", "idle",
             "exited", "processManifest"}
  /\ DEBUG \in BOOLEAN
  /\ server \in {"none", "bound", "failed", "listening", "closed"}
  /\ running \subseteq {"mktemp", "respec2html", "vnu", "link-checker"}
  /\ tempFile \in {NoFile, OutputHtml}
  /\ htmlFile \in {NoFile, OutputHtml}
  /\ manifestReads \in Nat
  /\ exitCode \in {NoExit, 0, 1, 127}
  /\ \A i \in 1..Len(finished) : finished[i].ok \in BOOLEAN
  /\ \A i \in 1..Len(derived) : derived[i].ok \in BOOLEAN

----------------------------------------------------------------------------
(* Vocabulary of the properties *)

Count(s, x) == Cardinality({ i \in 1..Len(s) : s[i] = x })
Launches(c) == Cardinality({ i \in 1..Len(launched) : launched[i].cmd = c })
Succeeded(c) == \E i \in 1..Len(finished) : finished[i] = [cmd |-> c, ok |-> TRUE]
Failed(c) == \E i \in 1..Len(finished) : finished[i] = [cmd |-> c, ok |-> FALSE]
EndsWith(s, t) ==
  /\ Len(s) >= Len(t)
  /\ SubSeq(s, Len(s) - Len(t) + 1, Len(s)) = t
Exited == pc = "exited"
GenerationFailed == Failed("mktemp") \/ Failed("respec2html")
ValidateReached == pc = "validate_version" \/ Count(out, "progress:respec") > 0

----------------------------------------------------------------------------
(* The orchestration *)

\* C1: when no skip flag is set and mktemp, respec2html, the markup
\* validator and the link checker have all succeeded, the process has
\* exited with code 0, the success summary was printed exactly once and
\* the failure summary never.
C1_AllPassExitsZero ==
  ( /\ options.parsed /\ ~options.noValidator /\ ~options.noLinks
    /\ Succeeded("mktemp") /\ Succeeded("respec2html")
    /\ Succeeded("vnu") /\ Succeeded("link-checker") )
  => /\ Exited
     /\ exitCode = 0
     /\ Count(out, "all-passed") = 1
     /\ Count(out, "not-so-good") = 0

C1_Witness ==
  /\ options.parsed /\ ~options.noValidator /\ ~options.noLinks
  /\ Succeeded("mktemp") /\ Succeeded("respec2html")
  /\ Succeeded("vnu") /\ Succeeded("link-checker")
  /\ Exited

\* C2: when mktemp or respec2html has failed, whatever the skip flags, the
\* markup validator and the link checker were never started (nor the
\* manifest read), the output ends with the error of the failed process
\* followed by the failure summary, and the process has exited with 1.
C2_GenerationFailureAborts ==
  GenerationFailed
  => /\ Launches("vnu") = 0
     /\ Launches("link-checker") = 0
     /\ manifestReads = 0
     /\ Exited
     /\ exitCode = 1
     /\ \/ EndsWith(out, <<"error:mktemp", "not-so-good">>)
        \/ EndsWith(out, <<"error:respec2html", "not-so-good">>)
     /\ Count(out, "all-passed") = 0

C2_Witness ==
  /\ Failed("respec2html")
  /\ ~options.noValidator /\ ~options.noLinks
  /\ Exited

\* C3: with --no-validator the markup validator is never started; a
\* generation failure still ends the run with exit code 1, and once the
\* generation succeeded the run is in the link check (the manifest is
\* being read or was read, or the link checker is the third child
\* started) when that is enabled, and has ended successfully when it is
\* not.
C3_NoValidatorSkipsMarkup ==
  (options.parsed /\ options.noValidator)
  => /\ Launches("vnu") = 0
     /\ Count(out, "progress:markup") = 0
     /\ GenerationFailed => (Exited /\ exitCode = 1)
     /\ (Succeeded("respec2html") /\ ~options.noLinks)
          => IF options.manifest
             THEN manifestReads = 1 /\ Len(launched) \in {2, 3}
             ELSE Len(launched) = 3 /\ launched[3].cmd = "link-checker"
     /\ (Succeeded("respec2html") /\ options.noLinks)
          => (Exited /\ exitCode = 0 /\ Len(launched) = 2)

C3_Witness ==
  /\ options.parsed /\ options.noValidator /\ ~options.noLinks
  /\ Succeeded("respec2html")
  /\ pc = "links"

\* C4: with --no-links the link checker is never started and the manifest
\* is never read, so that a run whose generation and markup check (when
\* enabled) succeeded ends with exit code 0 whatever the manifest is.
C4_NoLinksSkipsLinkCheck ==
  (options.parsed /\ options.noLinks)
  => /\ Launches("link-checker") = 0
     /\ Count(out, "progress:links") = 0
     /\ manifestReads = 0
     /\ manifestData = NoManifest
     /\ pc # "manifest"
     /\ Count(out, "error:readFile") = 0 /\ Count(out, "error:url") = 0
     /\ (Succeeded("respec2html")
           /\ (options.noValidator \/ Succeeded("vnu")))
          => (Exited /\ exitCode = 0)

C4_Witness ==
  /\ options.parsed /\ options.noLinks /\ options.manifest
  /\ Succeeded("vnu")
  /\ Exited /\ exitCode = 0

----------------------------------------------------------------------------
(* The command line *)

UserWithoutToken == options.parsed /\ options.ghUser /\ ~options.ghToken

\* C5, as stated: whenever --gh-user is given without --gh-token, the run
\* ends with a configuration error and exit code 1, and no child process
\* was started.
C5_UserWithoutTokenExitsOne ==
  (UserWithoutToken /\ Exited)
  => /\ exitCode = 1
     /\ \/ EndsWith(out, <<"missing-gh-token">>)
        \/ EndsWith(out, <<"usage">>)
     /\ launched = <<>>

\* C5, amended: whenever --gh-user is given without --gh-token, validate
\* is never called and no child process is ever started; unless --version
\* or --help is given, which are served first, the run has ended in
\* parseCommandLine with exit code 1, after the missing-token message
\* when a source was given and after the usage text when it was not.
C5_UserWithoutTokenNeverValidates ==
  UserWithoutToken
  => /\ launched = <<>>
     /\ running = {}
     /\ ~ValidateReached
     /\ pc \in {"version", "idle", "exited"}
     /\ (~options.version /\ ~options.help)
          => /\ Exited
             /\ exitCode = 1
             /\ IF options.src # ""
                THEN out = <<"missing-gh-token">>
                ELSE out = <<"usage">>

C5_Witness ==
  /\ UserWithoutToken
  /\ ~options.version /\ ~options.help /\ options.src # ""
  /\ Exited /\ exitCode = 1

\* C6: the source document is optional and defaults to index.html: when
\* the command line names no source, the parsed options hold index.html
\* and the run does not end in parseCommandLine with the usage text and
\* exit code 1.
C6_SrcDefaultsToIndexHtml ==
  (options.parsed /\ argv.src = "")
  => /\ options.src = "index.html"
     /\ (~options.version /\ ~options.help /\ ~UserWithoutToken)
          => ~(Exited /\ exitCode = 1 /\ launched = <<>>
                 /\ out = <<"usage">>)

\* C7, as stated: a command line that commandLineArgs rejects for another
\* reason than an unknown option ends the run with exit code 1, one with
\* an unknown option with 127, and no child process is started.
C7_ParseErrorExitsOne ==
  (argv.err # "none" /\ Exited)
  => /\ exitCode = IF argv.err = "UNKNOWN_OPTION" THEN 127 ELSE 1
     /\ launched = <<>>

\* C7, amended: every command line that commandLineArgs rejects, for an
\* unknown option or for any other reason, ends the run with the usage
\* text and exit code 127, and no child process is started; exit code 1
\* is not an exit code of a rejected command line.
C7_ParseErrorExits127 ==
  (argv.err # "none" /\ pc # "load" /\ pc # "main")
  => /\ Exited
     /\ exitCode = 127
     /\ out = <<"usage">>
     /\ launched = <<>>
     /\ ~options.parsed

C7_Witness ==
  /\ argv.err = "UNKNOWN_VALUE"
  /\ Exited /\ exitCode = 127

----------------------------------------------------------------------------
(* The sequence of the stages *)

\* C8: at most one child process is in flight; respec2html is started only
\* after mktemp succeeded, the markup validator only after respec2html
\* succeeded, and the link checker only after respec2html and, unless
\* --no-validator, the markup validator succeeded.
C8_StagesSequential ==
  /\ Cardinality(running) <= 1
  /\ Launches("respec2html") > 0 => Succeeded("mktemp")
  /\ Launches("vnu") > 0 => Succeeded("respec2html")
  /\ Launches("link-checker") > 0
       => /\ Succeeded("respec2html")
          /\ ~options.noValidator => Succeeded("vnu")
  /\ pc = "manifest"
       => /\ running = {}
          /\ Succeeded("respec2html")
          /\ ~options.noValidator => Succeeded("vnu")

C8_Witness ==
  /\ running = {"link-checker"}
  /\ ~options.noValidator
  /\ Succeeded("vnu")

\* C9: when the markup validator has failed, the link checker was never
\* started and the manifest never read, the output ends with the error and
\* the failure summary and the process has exited with 1; when the link
\* checker has failed, the process has exited with 1 after the failure
\* summary, and the success summary was not printed.
C9_LaterFailuresAbort ==
  /\ Failed("vnu")
       => /\ Launches("link-checker") = 0
          /\ manifestReads = 0
          /\ Exited
          /\ exitCode = 1
          /\ EndsWith(out, <<"error:vnu", "not-so-good">>)
          /\ Count(out, "all-passed") = 0
  /\ Failed("link-checker")
       => /\ Exited
          /\ exitCode = 1
          /\ EndsWith(out, <<"error:link-checker", "not-so-good">>)
          /\ Count(out, "all-passed") = 0

C9_Witness ==
  /\ Failed("vnu")
  /\ ~options.noLinks /\ options.manifest
  /\ Exited

\* C10: every child process (mktemp, respec2html, the markup validator,
\* the link checker) is started at most once in a run and ends at most
\* once, and the manifest is read at most once; hence at most one
\* temporary directory and one output file are made.
C10_NoRetries ==
  /\ \A c \in {"mktemp", "respec2html", "vnu", "link-checker"} :
       /\ Launches(c) <= 1
       /\ Cardinality({ i \in 1..Len(finished) : finished[i].cmd = c }) <= 1
  /\ manifestReads <= 1
  /\ Len(launched) <= 4

C10_Witness ==
  /\ Exited
  /\ Failed("link-checker")
  /\ Len(launched) = 4
  /\ manifestReads = 1

----------------------------------------------------------------------------
(* The manifest *)

LinkCheckerCmds == { launched[i] : i \in { j \in 1..Len(launched) :
                                            launched[j].cmd = "link-checker" } }

\* the records of a manifest: its lines that are not empty
NonEmptyLines(data) == SelectSeq(SplitLines(data), LAMBDA l : l # <<>>)

\* C11: with --manifest and the link check enabled, the link checker is
\* never started while processManifest is pending; when it is started the
\* manifest has been read once and the derivation has returned, with one
\* exclusion for every record of the file, and the link checker is given
\* exactly the list that was returned.
C11_IgnoresCompleteBeforeLinks ==
  (options.parsed /\ options.manifest)
  => /\ pc = "manifest"
          => (Launches("link-checker") = 0 /\ derived = <<>>)
     /\ \A c \in LinkCheckerCmds :
          /\ manifestReads = 1
          /\ manifestData = manifestFile
          /\ Len(derived) = 1
          /\ derived[1].ok
          /\ c.ignores = derived[1].ignores
          /\ Len(c.ignores) = Len(NonEmptyLines(manifestFile))
          /\ ignores = c.ignores

C11_Witness ==
  /\ options.parsed /\ options.manifest
  /\ running = {"link-checker"}
  /\ Len(ignores) = 2

HasBadURL(data) ==
  \E k \in 1..Len(NonEmptyLines(data)) :
    ~ParseURL(UrlComponent(NonEmptyLines(data)[k])).ok

ManifestFailed ==
  /\ manifestReads > 0
  /\ pc # "manifest"
  /\ manifestFile = Unreadable \/ HasBadURL(manifestFile)

\* C12: once the manifest could not be read, or the first token of one of
\* its lines did not parse as a URL, the link checker is never started, the
\* output ends with the error and the failure summary, the success summary
\* is not printed and the process has exited with code 1.
C12_ManifestFailureAborts ==
  ManifestFailed
  => /\ Launches("link-checker") = 0
     /\ Exited
     /\ exitCode = 1
     /\ \/ EndsWith(out, <<"error:readFile", "not-so-good">>)
        \/ EndsWith(out, <<"error:url", "not-so-good">>)
     /\ Count(out, "all-passed") = 0
     /\ Len(derived) = 1 /\ ~derived[1].ok

C12_Witness ==
  /\ ManifestFailed
  /\ manifestFile # Unreadable
  /\ Exited

\* a blank line: nothing but white space
IsBlank(line) == \A i \in 1..Len(line) : line[i] \in {SP, LF}

\* the first white-space delimited token of a line that is not blank
FirstToken(line) ==
  LET start == CHOOSE i \in 1..Len(line) :
                 /\ line[i] \notin {SP, LF}
                 /\ \A j \in 1..(i - 1) : line[j] \in {SP, LF}
      stop == IndexFrom(line, start, {SP, LF})
  IN  SubSeq(line, start, IF stop = 0 THEN Len(line) ELSE stop - 1)

Records(data) == SelectSeq(SplitLines(data), LAMBDA l : ~IsBlank(l))

\* the exclusions of a manifest as the derivation is described: one for
\* every line that is not blank, in order, the path of its first token
\* without the leading slash
Exclusions(data) ==
  [k \in 1..Len(Records(data)) |->
     Slice1(ParseURL(FirstToken(Records(data)[k])).pathname)]

TokensParse(data) ==
  \A k \in 1..Len(Records(data)) : ParseURL(FirstToken(Records(data)[k])).ok

\* C13: for a manifest that can be read and whose tokens parse, every call
\* of processManifest returns, in the order of the file, one exclusion for
\* every line that is not blank and none for the blank lines: the path of
\* the URL that the first white-space delimited token of the line parses
\* to, without its leading slash.
C13_OneExclusionPerRecord ==
  (manifestFile # Unreadable /\ TokensParse(manifestFile))
  => \A i \in 1..Len(derived) :
       /\ derived[i].ok
       /\ derived[i].ignores = Exclusions(manifestFile)

----------------------------------------------------------------------------
(* What the run prints *)

MarkerSet ==
  { "progress:respec", "success:respec", "progress:markup",
    "success:markup", "progress:links", "success:links", "all-passed" }

\* the progress lines, success markers and success summary printed so far
Markers == SelectSeq(out, LAMBDA m : m \in MarkerSet)
LastMarker == IF Markers = <<>> THEN "none" ELSE Markers[Len(Markers)]

\* what a run whose enabled stages all pass prints, in order
PassingMarkers(opts) ==
  <<"progress:respec", "success:respec">>
    \o (IF opts.noValidator THEN <<>>
        ELSE <<"progress:markup", "success:markup">>)
    \o (IF opts.noLinks THEN <<>>
        ELSE <<"progress:links", "success:links">>)
    \o <<"all-passed">>

IsPrefix(a, b) == Len(a) <= Len(b) /\ SubSeq(b, 1, Len(a)) = a

\* C15: what a run prints follows the order of the stages: the lines
\* printed so far are the beginning of what a passing run with these
\* options prints (generation, markup unless skipped, links unless
\* skipped, then the success summary); while a child runs, the last line
\* is the progress line of its stage; the success marker of a stage is
\* there as soon as its process has succeeded; and a run that ends with
\* exit code 0 after validating has printed all of it.
C15_MarkersFollowStages ==
  options.parsed
  => /\ IsPrefix(Markers, PassingMarkers(options))
     /\ running \cap {"mktemp", "respec2html"} # {}
          => LastMarker = "progress:respec"
     /\ "vnu" \in running => LastMarker = "progress:markup"
     /\ "link-checker" \in running => LastMarker = "progress:links"
     /\ Succeeded("respec2html") => Count(out, "success:respec") = 1
     /\ Succeeded("vnu") => Count(out, "success:markup") = 1
     /\ Succeeded("link-checker") => Count(out, "success:links") = 1
     /\ (Exited /\ exitCode = 0 /\ launched # <<>>)
          => Markers = PassingMarkers(options)

C15_Witness ==
  /\ options.parsed /\ ~options.noValidator /\ ~options.noLinks
  /\ Exited /\ exitCode = 0
  /\ Len(Markers) = 7

\* C16: when DEBUG is set in the environment and the command line, without
\* --debug, parses, debug mode is on while the stages run: every command
\* started was logged, and so was the version.
C16_EnvDebugHonoured ==
  (env.DEBUG /\ options.parsed /\ ~options.debug /\ launched # <<>>)
  => /\ DEBUG
     /\ Count(out, "debug:cmd") = Len(launched)
     /\ Count(out, "debug:version") = 1

\* C17: while a stage runs (a child process is in flight, or validate
\* waits between two of them) the server is listening; the server is never
\* closed but by the end of the process.
C17_ServerListensDuringStages ==
  /\ (running # {} \/ pc \in {"validate_version", "mktemp", "respec", "vnu",
                             "manifest", "links"})
       => server = "listening"
  /\ (launched # <<>> /\ ~Exited) => server = "listening"
  /\ server = "closed" => Exited

C17_Witness ==
  /\ running = {"link-checker"}
  /\ Succeeded("vnu")
  /\ server = "listening"

----------------------------------------------------------------------------
(* How the run ends *)

\* validate was called: the options passed the checks of parseCommandLine
\* and the main function went on after it
ValidateCalled ==
  /\ options.parsed
  /\ CheckOptions(options) = "ok"
  /\ env.portFree
  /\ pc \notin {"load", "main", "parsed"}

Ended == pc \in {"exited", "idle"}

\* generation and every enabled later stage succeeded
EnabledStagesSucceeded ==
  /\ Succeeded("mktemp") /\ Succeeded("respec2html")
  /\ options.noValidator \/ Succeeded("vnu")
  /\ options.noLinks
       \/ /\ Succeeded("link-checker")
          /\ options.manifest => (Len(derived) = 1 /\ derived[1].ok)

\* C18: a run that reached validate ends with exactly one of the two
\* summaries printed, once; it ends with exit code 0 if the success summary
\* was printed, which is so exactly if the generation and every enabled
\* later stage succeeded, and with exit code 1 otherwise.
C18_OneSummaryDecidesExitCode ==
  (ValidateCalled /\ Ended)
  => /\ Count(out, "all-passed") + Count(out, "not-so-good") = 1
     /\ exitCode \in {0, 1}
     /\ exitCode = 0 <=> Count(out, "all-passed") = 1
     /\ Count(out, "all-passed") = 1 <=> EnabledStagesSucceeded

\* C19: every run ends by process.exit with 0, 1 or 127.  Every step of a
\* run moves it forward and runs are finite, so that, the child processes
\* and file reads all ending, a run ends by process.exit exactly if the
\* only states in which nothing is left to happen are those after
\* process.exit.
C19_EveryRunExits ==
  ~(ENABLED Next) => (Exited /\ exitCode \in {0, 1, 127})

VersionOrHelp == options.parsed /\ (options.version \/ options.help)

\* C20, as stated: a run with --version or --help ends with exit code 0
\* and starts no child process.
C20_VersionOrHelpExitsZero ==
  (VersionOrHelp /\ Ended) => (exitCode = 0 /\ launched = <<>>)

\* C20, amended: a run with --version or --help never calls validate and
\* starts no child process, whatever the other options.  --version comes
\* first: the usage text and the configuration errors are never printed,
\* and the run ends with exit code 0 exactly when the version was printed,
\* which it is once package.json has been read, if port 5000 could be
\* bound; when it could not, the run ends with 1.  --help without
\* --version ends the run in parseCommandLine with the usage text and exit
\* code 0, with or without a source, with or without a token.
C20_VersionThenHelpFirst ==
  VersionOrHelp
  => /\ launched = <<>> /\ running = {}
     /\ pc \in {"version", "idle", "exited"}
     /\ options.version
          => /\ Count(out, "usage") = 0
             /\ Count(out, "missing-gh-token") = 0
             /\ Exited => (exitCode = 0 <=> out = <<"version">>)
             /\ Exited => exitCode \in {0, 1}
             /\ (Exited /\ ~env.portFree) => exitCode = 1
             /\ out = <<"version">> => (Exited /\ exitCode = 0)
     /\ ~options.version
          => (Exited /\ exitCode = 0 /\ out = <<"usage">>)

C20_Witness ==
  /\ options.parsed /\ options.help /\ ~options.version
  /\ options.src = "" /\ options.ghUser /\ ~options.ghToken
  /\ Exited /\ exitCode = 0

====
